---- MODULE Spec2Model ----
(***************************************************************************)
(* PageRank engine of pagerank.py: transition_model, sample_pagerank and   *)
(* iterate_pagerank.                                                       *)
(*                                                                         *)
(* Numbers.  Python floats are modelled by exact arithmetic:               *)
(*   - the probabilities of transition_model are reduced fractions         *)
(*     <<n, d>> of small integers;                                         *)
(*   - the ranks of iterate_pagerank are exact fractions                   *)
(*     num / (N * Scale^exp) whose numerator is an arbitrary-precision     *)
(*     natural (a little-endian sequence of base-10000 limbs), because the *)
(*     denominators grow by a factor Scale every round.                    *)
(* Page identifiers are Python strings, modelled as sequences of           *)
(* one-character strings so that indexing (page[0]) does what it does.     *)
(***************************************************************************)
EXTENDS Integers, Sequences, FiniteSets

\* ------------------------------------------------------------------------
\* Bounds of the model
\* ------------------------------------------------------------------------
MaxPages == 3
MaxLinks == 3
MaxSamples == 3
MaxRounds == 40

\* ------------------------------------------------------------------------
\* Small exact fractions <<n, d>>, d > 0, always reduced
\* ------------------------------------------------------------------------
\* The recursive helpers are functions, so that their arguments are values
\* when the body is evaluated.
Abs(i) == IF i < 0 THEN -i ELSE i

GCD[a \in Nat, b \in Nat] == IF b = 0 THEN a ELSE GCD[b, a % b]

LCM(a, b) == (a * b) \div GCD[a, b]

Rat(n, d) ==
    LET g == GCD[Abs(n), d] IN <<n \div g, d \div g>>

RatAdd(a, b) == Rat(a[1] * b[2] + b[1] * a[2], a[2] * b[2])
RatSub(a, b) == Rat(a[1] * b[2] - b[1] * a[2], a[2] * b[2])
RatDivInt(a, m) == Rat(a[1], a[2] * m)
RatLeq(a, b) == a[1] * b[2] <= b[1] * a[2]
One == <<1, 1>>
Zero == <<0, 1>>

\* ------------------------------------------------------------------------
\* Arbitrary-precision naturals: little-endian limbs, no leading zero limb
\* ------------------------------------------------------------------------
Base == 10000

Big == Seq(Nat)

BigFromInt[i \in Nat] ==
    IF i = 0 THEN <<>> ELSE <<i % Base>> \o BigFromInt[i \div Base]

BigToInt[a \in Big] ==
    IF a = <<>> THEN 0 ELSE Head(a) + Base * BigToInt[Tail(a)]

BigAddC[a \in Big, b \in Big, c \in Nat] ==
    IF a = <<>> /\ b = <<>> THEN (IF c = 0 THEN <<>> ELSE <<c>>)
    ELSE LET x == IF a = <<>> THEN 0 ELSE Head(a)
             y == IF b = <<>> THEN 0 ELSE Head(b)
             s == x + y + c
         IN <<s % Base>> \o BigAddC[IF a = <<>> THEN a ELSE Tail(a),
                                    IF b = <<>> THEN b ELSE Tail(b),
                                    s \div Base]

BigAdd(a, b) == BigAddC[a, b, 0]

BigMulC[a \in Big, m \in Nat, c \in Nat] ==
    IF a = <<>> THEN BigFromInt[c]
    ELSE LET s == Head(a) * m + c
         IN <<s % Base>> \o BigMulC[Tail(a), m, s \div Base]

\* a * m for a small natural m
BigMulSmall(a, m) == IF m = 0 THEN <<>> ELSE BigMulC[a, m, 0]

BigStrip[a \in Big] ==
    IF a = <<>> THEN a
    ELSE IF a[Len(a)] = 0 THEN BigStrip[SubSeq(a, 1, Len(a) - 1)] ELSE a

\* floor(a / m) for a small positive m; limbs are handled most significant first
BigDivR[a \in Big, m \in Nat, i \in Nat, r \in Nat] ==
    IF i = 0 THEN <<>>
    ELSE LET cur == r * Base + a[i]
         IN BigDivR[a, m, i - 1, cur % m] \o <<cur \div m>>

BigDivTop[a \in Big, m \in Nat] == BigStrip[BigDivR[a, m, Len(a), 0]]

BigDivSmall(a, m) == BigDivTop[a, m]

BigPow[s \in Nat, k \in Nat] ==
    IF k = 0 THEN <<1>> ELSE BigMulSmall(BigPow[s, k - 1], s)

BigDivPow[a \in Big, s \in Nat, k \in Nat] ==
    IF k = 0 THEN a ELSE BigDivPow[BigDivSmall(a, s), s, k - 1]

BigLtFrom[a \in Big, b \in Big, i \in Nat] ==
    IF i = 0 THEN FALSE
    ELSE IF a[i] # b[i] THEN a[i] < b[i] ELSE BigLtFrom[a, b, i - 1]

BigLt(a, b) ==
    IF Len(a) # Len(b) THEN Len(a) < Len(b) ELSE BigLtFrom[a, b, Len(a)]

BigLeq(a, b) == a = b \/ BigLt(a, b)

\* ------------------------------------------------------------------------
\* Page identifiers and corpora
\* ------------------------------------------------------------------------
\* The strings "ab", "a", "b", "cd", "c" as character sequences.
NameList == << <<"a", "b">>, <<"a">>, <<"b">>, <<"c", "d">>, <<"c">> >>

Names(n) == {NameList[i] : i \in 1..n}

RECURSIVE SetSum(_, _)
SetSum(S, f) ==
    IF S = {} THEN 0
    ELSE LET x == CHOOSE y \in S : TRUE IN f[x] + SetSum(S \ {x}, f)

\* What crawl() produces: every page maps to a set of OTHER pages of the
\* corpus (self links and links leaving the corpus are removed).
CorporaOf(K) ==
    {c \in [K -> SUBSET K] :
        /\ \A p \in K : p \notin c[p]
        /\ SetSum(K, [p \in K |-> Cardinality(c[p])]) <= MaxLinks}

Corpora == UNION {CorporaOf(Names(n)) : n \in 1..MaxPages}

\* list(corpus.keys()): the iteration order of the dictionary
KeysOf(c) ==
    LET InCorpus(name) == name \in DOMAIN c
    IN SelectSeq(NameList, InCorpus)

DAMPING == <<17, 20>>
ValidDampings == {<<1, 2>>, DAMPING}
Dampings == ValidDampings \cup {One}

IsValidDamping(d) == RatLeq(Zero, d) /\ d # Zero /\ RatLeq(d, One) /\ d # One

VARIABLES
    call,            \* which function is being run
    pc,              \* position inside it
    corpus,          \* argument: page -> set of linked pages
    damping_factor,  \* argument
    page,            \* transition_model: the argument `page`
    model,           \* transition_model: the outcome
    n,               \* sample_pagerank: argument
    sample,          \* sample_pagerank: the current sample, a one-element list
    counter,         \* sample_pagerank: samples still to draw
    sample_results,  \* sample_pagerank: results
    prev_results,    \* iterate_pagerank
    results,         \* iterate_pagerank
    breaker,         \* iterate_pagerank
    todo,            \* iterate_pagerank: keys the for loop has still to visit
    rounds           \* iterate_pagerank: rounds completed (model bookkeeping)

vars == <<call, pc, corpus, damping_factor, page, model, n, sample, counter,
          sample_results, prev_results, results, breaker, todo, rounds>>

None == <<>>

\* ------------------------------------------------------------------------
\* transition_model
\* ------------------------------------------------------------------------
\* A Python value passed as `page`: a string or a list of strings.
StrArg(s) == [kind |-> "str", val |-> s]
ListArg(l) == [kind |-> "list", val |-> l]

\* page[0]: the first character of a string (itself a one-character string),
\* or the first element of a list.
Index0(p) == IF p.kind = "str" THEN <<p.val[1]>> ELSE p.val[1]

KeyError == [status |-> "KeyError"]
Returned(m) == [status |-> "ok", value |-> m]

transition_model(c, p, d) ==
    LET p0 == Index0(p)
        N == Cardinality(DOMAIN c)
    IN IF p0 \notin DOMAIN c THEN KeyError
       ELSE IF Cardinality(c[p0]) # 0
       THEN LET link_prob == RatAdd(RatDivInt(d, Cardinality(c[p0])),
                                    RatDivInt(RatSub(One, d), N))
            IN Returned([key \in DOMAIN c |->
                            IF key \in c[p0] THEN link_prob
                            ELSE RatDivInt(RatSub(One, d), N)])
       ELSE Returned([key \in DOMAIN c |-> RatDivInt(One, N)])

InitTM ==
    /\ call = "transition_model"
    /\ pc = "start"
    /\ corpus \in Corpora
    /\ damping_factor \in Dampings
    /\ \E k \in DOMAIN corpus : page \in {StrArg(k), ListArg(<<k>>)}
    /\ model = None
    /\ n = 0 /\ sample = None /\ counter = 0 /\ sample_results = None
    /\ prev_results = None /\ results = None /\ breaker = 0
    /\ todo = None /\ rounds = 0

CallTransitionModel ==
    /\ call = "transition_model" /\ pc = "start"
    /\ model' = transition_model(corpus, page, damping_factor)
    /\ pc' = "done"
    /\ UNCHANGED <<call, corpus, damping_factor, page, n, sample, counter,
                   sample_results, prev_results, results, breaker, todo, rounds>>

NextTM == CallTransitionModel

SpecTM == InitTM /\ [][NextTM]_vars

\* The page the caller means: the key it passed, or the key inside the list.
CurrentPage == IF page.kind = "str" THEN page.val ELSE page.val[1]

RECURSIVE RatSumOver(_, _)
RatSumOver(ks, f) ==
    IF ks = <<>> THEN Zero ELSE RatAdd(f[Head(ks)], RatSumOver(Tail(ks), f))

TMCalled == call = "transition_model" /\ pc = "done"

IsDistribution(out) ==
    /\ out.status = "ok"
    /\ DOMAIN out.value = DOMAIN corpus
    /\ \A k \in DOMAIN corpus : RatLeq(Zero, out.value[k])
    /\ RatSumOver(KeysOf(corpus), out.value) = One

\* C1: for every non-empty well-formed corpus, every current page of the
\* corpus and every damping factor in (0,1), transition_model returns a
\* mapping whose keys are exactly the corpus pages, whose values are
\* non-negative and whose values sum to 1.
C1_TransitionIsDistribution ==
    (TMCalled /\ IsValidDamping(damping_factor)) => IsDistribution(model)

\* C2: for every current page with zero outbound links, transition_model
\* returns probability 1/N for every page of the corpus, whatever the
\* damping factor.
C2_DanglingIsUniform ==
    (TMCalled /\ IsValidDamping(damping_factor) /\ corpus[CurrentPage] = {}) =>
        /\ model.status = "ok"
        /\ \A k \in DOMAIN corpus :
              model.value[k] = Rat(1, Cardinality(DOMAIN corpus))

\* (1-damping)/N plus damping/d for the pages p links to, written with a
\* common denominator: damping = a/b, so the value is
\* ((b-a)*d + [k linked] a*N) / (b*N*d).
LinkFormula(c, p, d, k) ==
    LET N == Cardinality(DOMAIN c)
        deg == Cardinality(c[p])
    IN Rat((d[2] - d[1]) * deg + (IF k \in c[p] THEN d[1] * N ELSE 0),
           d[2] * N * deg)

\* C9: for every currentPage that is itself a key of the corpus (an
\* identifier of any length) with out-degree d >= 1, transition_model looks
\* up the links of exactly that page and returns (1-damping)/N, plus
\* damping/d for the pages among currentPage's links.
C9_LinksOfExactlyThatPage ==
    (TMCalled /\ IsValidDamping(damping_factor) /\ page.kind = "str"
        /\ corpus[CurrentPage] # {}) =>
        /\ model.status = "ok"
        /\ \A k \in DOMAIN corpus :
              model.value[k] = LinkFormula(corpus, CurrentPage, damping_factor, k)

\* The same three statements for the call sample_pagerank makes, which
\* passes the one-element list random.choices returned.
ListCallIsDistribution ==
    (TMCalled /\ page.kind = "list") => IsDistribution(model)

ListCallDanglingIsUniform ==
    (TMCalled /\ page.kind = "list" /\ corpus[CurrentPage] = {}) =>
        \A k \in DOMAIN corpus :
            model.value[k] = Rat(1, Cardinality(DOMAIN corpus))

ListCallLinksOfThatPage ==
    (TMCalled /\ page.kind = "list" /\ corpus[CurrentPage] # {}) =>
        \A k \in DOMAIN corpus :
            model.value[k] = LinkFormula(corpus, CurrentPage, damping_factor, k)

\* ------------------------------------------------------------------------
\* sample_pagerank
\* ------------------------------------------------------------------------
SampleCounts == -1..MaxSamples

InitSample ==
    /\ call = "sample_pagerank"
    /\ pc = "start"
    /\ corpus \in Corpora
    /\ damping_factor \in Dampings
    /\ n \in SampleCounts
    /\ page = None /\ model = None
    /\ sample = None /\ counter = 0 /\ sample_results = None
    /\ prev_results = None /\ results = None /\ breaker = 0
    /\ todo = None /\ rounds = 0

\* results after the first sample: every key at 0, the sampled one set to 1
FirstSampleNotCounted(c, s) == [key \in DOMAIN c |-> 0]

FirstSample(c, s) == [key \in DOMAIN c |-> IF key = s[1] THEN 1 ELSE 0]

\* random.choices(population, weights, k=1): a one-element list holding any
\* element whose weight is positive
Choices(population, weights) ==
    {<<population[i]>> : i \in {j \in 1..Len(population) :
                                   ~RatLeq(weights[population[j]], Zero)}}

\* results[key] / n for every key; dividing by n = 0 raises ZeroDivisionError
Percentages(res, m) ==
    IF m = 0 THEN [status |-> "ZeroDivisionError"]
    ELSE Returned([key \in DOMAIN res |->
                      IF m > 0 THEN Rat(res[key], m) ELSE Rat(-res[key], -m)])

\* lines 98-110: the results dictionary, the first sample, the counter
SampleFirst ==
    /\ call = "sample_pagerank" /\ pc = "start"
    /\ \E k \in DOMAIN corpus :
          /\ sample' = <<k>>
          /\ sample_results' = FirstSample(corpus, <<k>>)
    /\ counter' = n - 1
    /\ pc' = "loop"
    /\ UNCHANGED <<call, corpus, damping_factor, page, model, n,
                   prev_results, results, breaker, todo, rounds>>

\* lines 111-118: one pass of the while loop
SampleStep ==
    /\ call = "sample_pagerank" /\ pc = "loop"
    /\ counter > 0
    /\ LET transition == transition_model(corpus, ListArg(sample), damping_factor)
       IN /\ transition.status = "ok"
          /\ \E s \in Choices(KeysOf(corpus), transition.value) :
                /\ sample' = s
                /\ sample_results' =
                      [sample_results EXCEPT ![s[1]] = sample_results[s[1]] + 1]
    /\ counter' = counter - 1
    /\ UNCHANGED <<call, pc, corpus, damping_factor, page, model, n,
                   prev_results, results, breaker, todo, rounds>>

\* lines 120-125: the loop is over; counts become fractions of n
SampleFinish ==
    /\ call = "sample_pagerank" /\ pc = "loop"
    /\ ~(counter > 0)
    /\ LET out == Percentages(sample_results, n)
       IN IF out.status = "ok"
          THEN /\ sample_results' = out.value
               /\ pc' = "done"
          ELSE /\ pc' = "error"
               /\ UNCHANGED sample_results
    /\ UNCHANGED <<call, corpus, damping_factor, page, model, n, sample, counter,
                   prev_results, results, breaker, todo, rounds>>

NextSample == SampleFirst \/ SampleStep \/ SampleFinish

SpecSample == InitSample /\ [][NextSample]_vars

\* C3: for every positive sampleCount the visit counters sum to the number
\* of samples drawn so far, hence to exactly sampleCount once all samples
\* are drawn; the returned ranks count/sampleCount sum to exactly 1; with
\* sampleCount = 1 exactly one page has rank 1 and all others 0.
C3_CountsSumToSampleCount ==
    (call = "sample_pagerank" /\ n >= 1) =>
        /\ pc = "loop" =>
              SetSum(DOMAIN corpus, sample_results) = n - counter
        /\ (pc = "loop" /\ ~(counter > 0)) =>
              SetSum(DOMAIN corpus, sample_results) = n
        /\ pc = "done" =>
              /\ RatSumOver(KeysOf(corpus), sample_results) = One
              /\ \A k \in DOMAIN corpus :
                    \E cnt \in 0..n : sample_results[k] = Rat(cnt, n)
              /\ n = 1 =>
                    \E k \in DOMAIN corpus :
                        /\ sample_results[k] = One
                        /\ \A o \in DOMAIN corpus \ {k} : sample_results[o] = Zero

C3_Witness ==
    /\ call = "sample_pagerank" /\ pc = "done" /\ n >= 2
    /\ \E k, o \in DOMAIN corpus :
          /\ k # o
          /\ ~RatLeq(sample_results[k], Zero)
          /\ ~RatLeq(sample_results[o], Zero)

\* C8: a call with an invalid argument (a damping factor outside (0,1), a
\* sampleCount that is zero or negative) ends in an error and returns no
\* rank mapping.
C8_InvalidArgumentRejected ==
    (/\ call \in {"sample_pagerank", "iterate_pagerank"}
     /\ \/ ~IsValidDamping(damping_factor)
        \/ call = "sample_pagerank" /\ n <= 0)
    => pc # "done"

\* ------------------------------------------------------------------------
\* iterate_pagerank
\* ------------------------------------------------------------------------
\* A rank is the exact fraction num / (N * Scale^exp), N = len(corpus).
\* Scale = b * Lcm for damping a/b, Lcm the least common multiple of N and
\* of the out-degrees, so that one round of the recurrence maps fractions
\* of exponent k to fractions of exponent k + 1 without rounding.
LcmOver[S \in SUBSET Nat, acc \in Nat] ==
    IF S = {} THEN acc
    ELSE LET x == CHOOSE y \in S : TRUE IN LcmOver[S \ {x}, LCM(acc, x)]

Lcm(c) ==
    LcmOver[{Cardinality(c[p]) : p \in {q \in DOMAIN c : c[q] # {}}},
            Cardinality(DOMAIN c)]

Scale(c, d) == d[2] * Lcm(c)

Num(num, exp) == [num |-> num, exp |-> exp]

\* N * Scale^k, the denominator of a rank of exponent k
Denominator(c, d, k) == BigMulSmall(BigPow[Scale(c, d), k], Cardinality(DOMAIN c))

\* math.trunc(v * 10**4), an integer number of ten-thousandths
Trunc4(c, d, v) ==
    BigToInt[BigDivPow[BigDivSmall(BigMulSmall(v.num, 10000), Cardinality(DOMAIN c)),
                       Scale(c, d), v.exp]]

\* lines 144-145: every page starts at 1 / len(corpus)
InitialRanks(c) == [key \in DOMAIN c |-> Num(<<1>>, 0)]

\* v / m in units of 1 / (N * Scale^exp * Lcm), for m dividing Lcm
Share(c, v, m) == BigMulSmall(v.num, Lcm(c) \div m)

\* The inner loop without the test for pages that have no links.
RECURSIVE SumLoopNoDangling(_, _, _, _, _)
SumLoopNoDangling(c, src, key, links, sum) ==
    IF links = <<>> THEN sum
    ELSE LET link == Head(links)
             s1 == IF key \in c[link]
                   THEN BigAdd(sum, Share(c, src[link], Cardinality(c[link])))
                   ELSE sum
         IN SumLoopNoDangling(c, src, key, Tail(links), s1)

\* lines 155-163: the inner loop over the pages of the corpus; the two tests
\* are independent `if`s
RECURSIVE SumLoop(_, _, _, _, _)
SumLoop(c, src, key, links, sum) ==
    IF links = <<>> THEN sum
    ELSE LET link == Head(links)
             s1 == IF key \in c[link]
                   THEN BigAdd(sum, Share(c, src[link], Cardinality(c[link])))
                   ELSE sum
             s2 == IF Cardinality(c[link]) = 0
                   THEN BigAdd(s1, Share(c, src[link], Cardinality(DOMAIN c)))
                   ELSE s1
         IN SumLoop(c, src, key, Tail(links), s2)

\* lines 153-166 with the ranks read from src, all of exponent k:
\* (1 - d) / N + d * sum, a fraction of exponent k + 1
RankFrom(c, d, src, key, k) ==
    LET sum == SumLoop(c, src, key, KeysOf(c), <<>>)
    IN Num(BigAdd(BigMulSmall(BigPow[Scale(c, d), k], (d[2] - d[1]) * Lcm(c)),
                  BigMulSmall(sum, d[1])),
           k + 1)

\* A solver that updates in place reads the ranks already written this round.
NewRankInPlace(c, d, prev, res, key) ==
    RankFrom(c, d,
             [q \in DOMAIN prev |-> IF q \in DOMAIN res THEN res[q] ELSE prev[q]],
             key, prev[key].exp)

\* line 159, 163: the sums read prev_results, never results
NewRank(c, d, prev, res, key) == RankFrom(c, d, prev, key, prev[key].exp)

\* The test of line 171 with 10**2 as the factor.
PassesTestHundredths(x, y) == (Abs(x - y) \div 100) <= 1

\* line 171: math.trunc(abs(x - y) * 10**3) <= 1, for x and y given in
\* ten-thousandths
PassesTest(x, y) == (Abs(x - y) \div 10) <= 1

\* The pass count left as the round ended.
BreakerKept == breaker

\* line 181: the pass count after a failed round
BreakerAfterFailedRound == 0

InitIter ==
    /\ call = "iterate_pagerank"
    /\ pc = "start"
    /\ corpus \in Corpora
    /\ damping_factor \in Dampings
    /\ page = None /\ model = None
    /\ n = 0 /\ sample = None /\ counter = 0 /\ sample_results = None
    /\ prev_results = None /\ results = None /\ breaker = 0
    /\ todo = None /\ rounds = 0

\* lines 137-151: the dictionaries, the initial ranks, the first round begins
IterStart ==
    /\ call = "iterate_pagerank" /\ pc = "start"
    /\ results' = <<>>
    /\ prev_results' = InitialRanks(corpus)
    /\ breaker' = 0
    /\ todo' = KeysOf(corpus)
    /\ pc' = "for"
    /\ UNCHANGED <<call, corpus, damping_factor, page, model, n, sample, counter,
                   sample_results, rounds>>

\* lines 151-173: the body of the for loop, for the next key
IterKey ==
    /\ call = "iterate_pagerank" /\ pc = "for"
    /\ todo # <<>>
    /\ LET key == Head(todo)
       IN /\ results' = [q \in DOMAIN results \cup {key} |->
                            IF q = key
                            THEN NewRank(corpus, damping_factor, prev_results,
                                         results, key)
                            ELSE results[q]]
          /\ LET x == Trunc4(corpus, damping_factor, results'[key])
                 y == Trunc4(corpus, damping_factor, prev_results[key])
             IN breaker' = IF PassesTest(x, y) THEN breaker + 1 ELSE breaker
    /\ todo' = Tail(todo)
    /\ UNCHANGED <<call, pc, corpus, damping_factor, page, model, n, sample,
                   counter, sample_results, prev_results, rounds>>

\* lines 176-178: every key passed, return results
IterReturn ==
    /\ call = "iterate_pagerank" /\ pc = "for"
    /\ todo = <<>>
    /\ breaker = Cardinality(DOMAIN corpus)
    /\ pc' = "done"
    /\ UNCHANGED <<call, corpus, damping_factor, page, model, n, sample, counter,
                   sample_results, prev_results, results, breaker, todo, rounds>>

\* lines 179-182 and 149-151: reset the count, copy results, next round
\* (the model follows a call for at most MaxRounds failed rounds)
IterAgain ==
    /\ call = "iterate_pagerank" /\ pc = "for"
    /\ todo = <<>>
    /\ breaker # Cardinality(DOMAIN corpus)
    /\ rounds < MaxRounds
    /\ breaker' = BreakerAfterFailedRound
    /\ prev_results' = results
    /\ todo' = KeysOf(results)
    /\ rounds' = rounds + 1
    /\ UNCHANGED <<call, pc, corpus, damping_factor, page, model, n, sample,
                   counter, sample_results, results>>

NextIter == IterStart \/ IterKey \/ IterReturn \/ IterAgain

SpecIter == InitIter /\ [][NextIter]_vars

\* Every statement of the loop is eventually executed: the function runs on
\* one thread with nothing to wait for.
FairSpecIter == SpecIter /\ WF_vars(NextIter)

RECURSIVE BigSumOver(_, _)
BigSumOver(ks, f) ==
    IF ks = <<>> THEN <<>> ELSE BigAdd(f[Head(ks)].num, BigSumOver(Tail(ks), f))

Iterating == call = "iterate_pagerank" /\ pc \in {"for", "done"}
RoundStart == call = "iterate_pagerank" /\ pc = "for" /\ todo = KeysOf(corpus)
RoundEnd == call = "iterate_pagerank" /\ pc \in {"for", "done"} /\ todo = <<>>

\* the ranks of f, all of exponent k, sum to 1 and each lies in [0,1]
SumsToOne(f, k) ==
    /\ DOMAIN f = DOMAIN corpus
    /\ \A q \in DOMAIN f :
          /\ f[q].exp = k
          /\ BigLeq(f[q].num, Denominator(corpus, damping_factor, k))
    /\ BigSumOver(KeysOf(corpus), f) = Denominator(corpus, damping_factor, k)

\* C4: for every damping factor in (0,1) the rank mapping held by
\* iterate_pagerank sums to 1 at the start and after every round, so the
\* mapping it returns sums to 1 and every rank lies in [0,1].
C4_MassConserved ==
    IsValidDamping(damping_factor) =>
        /\ RoundStart => SumsToOne(prev_results, rounds)
        /\ RoundEnd => SumsToOne(results, rounds + 1)

C4_Witness ==
    /\ call = "iterate_pagerank" /\ pc = "done" /\ rounds >= 2
    /\ IsValidDamping(damping_factor)
    /\ \E q \in DOMAIN corpus : corpus[q] = {}
    /\ \E q \in DOMAIN corpus : corpus[q] # {}

\* C5: iterate_pagerank returns only at the end of a round in which, for
\* every page, the absolute difference between the new and the previous
\* rank, both truncated to 4 decimal places, is no greater than 0.001; and
\* the pass count of one round is never carried into the next.
C5_ReturnsOnlyWithinTolerance ==
    /\ (call = "iterate_pagerank" /\ pc = "done") =>
          \A key \in DOMAIN corpus :
              Abs(Trunc4(corpus, damping_factor, results[key])
                  - Trunc4(corpus, damping_factor, prev_results[key])) <= 10
    /\ RoundStart => breaker = 0

\* What line 171 does enforce: the difference of the truncated ranks,
\* itself truncated to 3 decimal places, is at most 0.001, that is the
\* difference is below 0.002.
ReturnsOnlyBelowTwoThousandths ==
    /\ (call = "iterate_pagerank" /\ pc = "done") =>
          \A key \in DOMAIN corpus :
              Abs(Trunc4(corpus, damping_factor, results[key])
                  - Trunc4(corpus, damping_factor, prev_results[key])) <= 19
    /\ RoundStart => breaker = 0

\* C6: for every well-formed corpus and every damping factor strictly
\* between 0 and 1, iterate_pagerank eventually reaches a round in which all
\* pages pass the convergence test, and returns.
C6_Terminates ==
    (call = "iterate_pagerank" /\ IsValidDamping(damping_factor))
        => <>(pc = "done")

C6_Witness ==
    /\ call = "iterate_pagerank" /\ pc = "done" /\ rounds >= 3
    /\ IsValidDamping(damping_factor)
    /\ \A q \in DOMAIN corpus : corpus[q] # {}

\* lo <= v * 10^4 <= hi
Within(v, lo, hi) ==
    LET den == Denominator(corpus, damping_factor, v.exp)
        scaled == BigMulSmall(v.num, 10000)
    IN BigLeq(BigMulSmall(den, lo), scaled) /\ BigLeq(scaled, BigMulSmall(den, hi))

\* The corpus {A: {}, B: {A}}, with A = "a" and B = "ab"
PageA == <<"a">>
PageB == <<"a", "b">>
ScenarioReturned ==
    /\ call = "iterate_pagerank" /\ pc = "done"
    /\ damping_factor = DAMPING
    /\ DOMAIN corpus = {PageA, PageB}
    /\ corpus[PageA] = {} /\ corpus[PageB] = {PageA}

\* C7 as stated: on {A: {}, B: {A}} with damping 0.85 the returned ranks
\* satisfy A > B, A = 0.6047 and B = 0.3953 within 0.001.
C7_ScenarioValuesAsStated ==
    ScenarioReturned =>
        /\ BigLt(results[PageB].num, results[PageA].num)
        /\ Within(results[PageA], 6037, 6057)
        /\ Within(results[PageB], 3943, 3963)

\* C7, amended: on {A: {}, B: {A}} with damping 0.85 the returned ranks
\* satisfy A > B, A = 0.6491 and B = 0.3509 within 0.001.
C7_ScenarioValues ==
    ScenarioReturned =>
        /\ BigLt(results[PageB].num, results[PageA].num)
        /\ Within(results[PageA], 6481, 6501)
        /\ Within(results[PageB], 3499, 3519)

C7_Witness == ScenarioReturned /\ rounds = 6

RECURSIVE BigSetSum(_, _)
BigSetSum(S, f) ==
    IF S = {} THEN <<>>
    ELSE LET x == CHOOSE y \in S : TRUE IN BigAdd(f[x], BigSetSum(S \ {x}, f))

\* (1-d)/N + d * (sum over q linking to p of prev[q]/outDegree(q)
\*                + sum over dangling q of prev[q]/N),
\* as the numerator over N * Scale^(k+1) for prev of exponent k
Recurrence(prev, p, k) ==
    LET N == Cardinality(DOMAIN corpus)
        L == Lcm(corpus)
        linking == {q \in DOMAIN corpus : p \in corpus[q]}
        dangling == {q \in DOMAIN corpus : corpus[q] = {}}
        fromLinks == BigSetSum(linking,
                        [q \in linking |->
                            BigMulSmall(prev[q].num, L \div Cardinality(corpus[q]))])
        fromDangling == BigSetSum(dangling,
                        [q \in dangling |-> BigMulSmall(prev[q].num, L \div N)])
        teleport == BigMulSmall(BigPow[Scale(corpus, damping_factor), k],
                                (damping_factor[2] - damping_factor[1]) * L)
    IN Num(BigAdd(teleport,
                  BigMulSmall(BigAdd(fromLinks, fromDangling), damping_factor[1])),
           k + 1)

\* C10: every page starts at 1/N; in every round each page's new rank is
\* the recurrence applied to the complete mapping of the preceding round
\* (ranks written in the current round never feed into another page's sum);
\* after a failed round the previous mapping is exactly that round's
\* results.
C10_RecurrenceOnPreviousRound ==
    Iterating =>
        /\ DOMAIN prev_results = DOMAIN corpus
        /\ \A q \in DOMAIN corpus : prev_results[q].exp = rounds
        /\ rounds = 0 => \A q \in DOMAIN corpus : prev_results[q] = Num(<<1>>, 0)
        /\ \A q \in DOMAIN corpus :
              IF \E i \in 1..Len(todo) : todo[i] = q
              THEN rounds > 0 => results[q] = prev_results[q]
              ELSE results[q] = Recurrence(prev_results, q, rounds)
        /\ (RoundStart /\ rounds > 0) => prev_results = results

C10_Witness ==
    /\ call = "iterate_pagerank" /\ pc = "for" /\ rounds >= 1
    /\ Len(todo) = 1 /\ Cardinality(DOMAIN corpus) >= 3
    /\ \E q \in DOMAIN corpus : corpus[q] = {}
    /\ \E q \in DOMAIN corpus : corpus[q] # {}

====
